---- MODULE Spec2Model ----
(***************************************************************************)
(* Webhook ingestion of meta-api-webhook-skill: the GET verification       *)
(* handshake, the signature verifier, and the POST dispatch loops of the   *)
(* server variants of the repository:                                      *)
(*   "config"  the config.json based server (SKILL.md, lines 332-753)      *)
(*   "env"     the environment based server (unnamed/part_002)             *)
(*   "rag"     the retrieval/LLM server with the history store             *)
(*             (scripts/server.ts)                                         *)
(*   "single"  the same with one access token and one business-account id  *)
(*             (unnamed/part_003)                                          *)
(*   "stateless" the single-account server without the history store       *)
(*             (unnamed/part_004)                                          *)
(* Strings that the code inspects character by character (the signature    *)
(* header) are sequences of one-character strings. A JavaScript undefined  *)
(* is the value Absent.                                                    *)
(***************************************************************************)
EXTENDS Integers, Sequences, FiniteSets, TLC

VARIABLES
    server,   \* which server variant this process runs
    cfg,      \* its configuration (config.json / process.env), fixed at start
    reqs,     \* POST requests: one record per request slot
    log,      \* downstream I/O in the order it happens (calls and returns)
    hist,     \* the history store: sender id -> sequence of appended entries
    sigIn,    \* signature verifier under test: [body, header, secrets]
    sigOut,   \* its results
    getIn,    \* the last GET handshake request
    getOut,   \* the response written for it
    itemIn,   \* entry item under classification: [platform, ph, item]
    itemOut,  \* what the running server does with it
    cb,       \* a POST /callbacks request and the progress of its handler
    api,      \* a MetaAPIClient method call and its progress
    env       \* process.env and config.json as read at startup

vars == <<server, cfg, reqs, log, hist, sigIn, sigOut, getIn, getOut, itemIn, itemOut,
          cb, api, env>>

Absent == "<undefined>"

(***************************************************************************)
(* Bounds                                                                  *)
(***************************************************************************)
DigestLen == 2      \* hex characters of a modelled digest (64 in SHA-256)
MaxSecrets == 2     \* length of a candidate-secret list under test
NReq == 2           \* POST requests handled in one run
MaxEntries == 2     \* entries of one payload
MaxItems == 2       \* messaging and changes items over all payloads of a run
MaxFail == 1        \* downstream calls that fail or come back empty in a run

(***************************************************************************)
(* Strings as character sequences                                          *)
(***************************************************************************)
Hex == <<"0", "1", "2", "3", "4", "5", "6", "7",
         "8", "9", "a", "b", "c", "d", "e", "f">>

\* 'sha256='
Prefix == <<"s", "h", "a", "2", "5", "6", "=">>

\* Number of UTF-8 bytes Buffer.from(str) makes of one character: every
\* character of the model is ASCII except NonAscii (U+00E9, two bytes).
NonAscii == "U+00E9"

ByteLen(c) == IF c = NonAscii THEN 2 ELSE 1

RECURSIVE Utf8Len(_)
Utf8Len(s) == IF s = <<>> THEN 0 ELSE ByteLen(Head(s)) + Utf8Len(Tail(s))

\* An undefined value where a character sequence is expected.
AbsentStr == <<Absent>>

\* JavaScript truthiness of an optional string: of one kept as an atom, and
\* of one kept as a character sequence.
Truthy(s) == s # Absent /\ s # ""

TruthyStr(s) == s # AbsentStr /\ s # <<>>

\* First index at which pat occurs in s, 0 when it does not.
IndexOf(s, pat) ==
    LET hits == {k \in 1..(Len(s) - Len(pat) + 1) :
                    SubSeq(s, k, k + Len(pat) - 1) = pat}
    IN IF hits = {} THEN 0 ELSE CHOOSE k \in hits : \A j \in hits : k <= j

\* String.prototype.split(pat)[1]
SplitSecond(s, pat) ==
    LET p == IndexOf(s, pat)
    IN IF p = 0 THEN AbsentStr
       ELSE LET rest == SubSeq(s, p + Len(pat), Len(s))
                q == IndexOf(rest, pat)
            IN IF q = 0 THEN rest ELSE SubSeq(rest, 1, q - 1)

(***************************************************************************)
(* HMAC-SHA256 as a collision-free keyed digest over the modelled secrets  *)
(* and bodies: the first hex character is determined by the key, the       *)
(* second by the body, the rest is padding.                                *)
(***************************************************************************)
Secrets == {"s1", "s2", "s3"}
Bodies == {"b1", "b2"}

SecretIdx(s) == CASE s = "s1" -> 1 [] s = "s2" -> 2 [] s = "s3" -> 3 [] OTHER -> 4
BodyIdx(b) == CASE b = "b1" -> 5 [] b = "b2" -> 6 [] OTHER -> 7

\* crypto.createHmac('sha256', secret).update(body).digest('hex')
Hmac(secret, body) ==
    [k \in 1..DigestLen |->
        IF k = 1 THEN Hex[SecretIdx(secret)]
        ELSE IF k = 2 THEN Hex[BodyIdx(body)] ELSE "0"]

\* The header a sender holding secret S computes for body B.
Sign(body, secret) == Prefix \o Hmac(secret, body)

(***************************************************************************)
(* Signature verifier of the config server                                 *)
(***************************************************************************)
\* validateSignature with the comparison cut down to the length check.
validateSignature_LengthOnly(payload, signature, appSecret) ==
    IF ~TruthyStr(signature) \/ ~Truthy(appSecret) \/ payload = Absent
    THEN "false"
    ELSE IF Len(signature) # Len(Sign(payload, appSecret)) THEN "false" ELSE "true"

\* validateSignature(payload, signature, appSecret): "true", "false", or
\* "throw" when crypto.timingSafeEqual is given buffers of different byte
\* length (RangeError).
validateSignature(payload, signature, appSecret) ==
    IF ~TruthyStr(signature) \/ ~Truthy(appSecret) \/ payload = Absent
    THEN "false"
    ELSE LET expectedSignature == Sign(payload, appSecret)
         IN IF Len(signature) # Len(expectedSignature) THEN "false"
            ELSE IF Utf8Len(signature) # Utf8Len(expectedSignature) THEN "throw"
            ELSE IF signature = expectedSignature THEN "true" ELSE "false"

\* candidateSecrets.some((secret) => validateSignature(rawBody, signature, secret))
RECURSIVE SomeValid(_, _, _)
SomeValid(rawBody, signature, candidateSecrets) ==
    IF candidateSecrets = <<>> THEN "false"
    ELSE LET v == validateSignature(rawBody, signature, Head(candidateSecrets))
         IN IF v = "false"
            THEN SomeValid(rawBody, signature, Tail(candidateSecrets))
            ELSE v

\* [...new Set(list)]: first occurrences, in order.
RECURSIVE Dedup(_)
Dedup(s) ==
    IF s = <<>> THEN <<>>
    ELSE LET d == Dedup(SubSeq(s, 1, Len(s) - 1))
             x == s[Len(s)]
         IN IF \E k \in 1..Len(d) : d[k] = x THEN d ELSE Append(d, x)

Opt(cond, x) == IF cond THEN <<x>> ELSE <<>>

\* Candidates with the platform's own secret put before the global one.
getCandidateSecrets_OwnFirst(c, platform) ==
    Dedup(Opt(platform = "instagram" /\ Truthy(c.igSecret), c.igSecret)
          \o Opt(platform = "messenger" /\ Truthy(c.msSecret), c.msSecret)
          \o Opt(Truthy(c.appSecret), c.appSecret)
          \o Opt(platform # "instagram" /\ Truthy(c.igSecret), c.igSecret)
          \o Opt(platform # "messenger" /\ Truthy(c.msSecret), c.msSecret))

\* Candidates without the secrets of the other platforms.
getCandidateSecrets_OwnOnly(c, platform) ==
    Dedup(Opt(Truthy(c.appSecret), c.appSecret)
          \o Opt(platform = "instagram" /\ Truthy(c.igSecret), c.igSecret)
          \o Opt(platform = "messenger" /\ Truthy(c.msSecret), c.msSecret))

\* getCandidateSecrets(platform)
getCandidateSecrets(c, platform) ==
    Dedup(Opt(Truthy(c.appSecret), c.appSecret)
          \o Opt(platform = "instagram" /\ Truthy(c.igSecret), c.igSecret)
          \o Opt(platform = "messenger" /\ Truthy(c.msSecret), c.msSecret)
          \o Opt(platform # "instagram" /\ Truthy(c.igSecret), c.igSecret)
          \o Opt(platform # "messenger" /\ Truthy(c.msSecret), c.msSecret))

(***************************************************************************)
(* Signature check of the env server                                       *)
(***************************************************************************)
\* verifySignature(req, res, buf) with META_APP_SECRET = secret: "true",
\* "false", or "throw" when crypto.createHmac is given an undefined key.
verifySignature(signature, buf, secret) ==
    IF ~TruthyStr(signature) THEN "false"
    ELSE IF secret = Absent THEN "throw"
    ELSE IF SplitSecond(signature, Prefix) # Hmac(secret, buf) THEN "false"
    ELSE "true"

(***************************************************************************)
(* SpecSig: the verifiers applied to every header, body and candidate list *)
(* of the bounded universe.                                                *)
(***************************************************************************)
SeqsUpTo(S, n) == UNION {[1..k -> S] : k \in 0..n}

Range(s) == {s[k] : k \in 1..Len(s)}

\* s with its k-th character replaced by c.
Subst(s, k, c) == [j \in 1..Len(s) |-> IF j = k THEN c ELSE s[j]]

HexChars == {Hex[k] : k \in 1..16}

\* Positions of the digest inside a signed header.
DigestPos == (Len(Prefix) + 1)..(Len(Prefix) + DigestLen)

SignedHeaders == {Sign(b, s) : b \in Bodies, s \in Secrets}

\* Signed headers with one digest character replaced by another character.
AlteredHeaders ==
    {Subst(h, k, c) : h \in SignedHeaders, k \in DigestPos,
                      c \in HexChars \cup {NonAscii}} \ SignedHeaders

SigHeaders ==
    {AbsentStr, <<>>} \cup SignedHeaders \cup AlteredHeaders
    \cup {Hmac(s, b) : b \in Bodies, s \in Secrets}
    \cup {h \o Prefix \o <<"0">> : h \in SignedHeaders}

SigNone == [config |-> "none", env |-> "none"]

InitSig ==
    /\ server = "config"
    /\ cfg = Absent
    /\ reqs = <<>>
    /\ log = <<>>
    /\ hist = <<>>
    /\ getIn = Absent
    /\ getOut = Absent
    /\ itemIn = Absent
    /\ itemOut = Absent
    /\ cb = Absent /\ api = Absent /\ env = Absent
    /\ sigIn \in [body : Bodies \cup {Absent}, header : SigHeaders,
                  secrets : SeqsUpTo(Secrets, MaxSecrets)]
    /\ sigOut = SigNone

\* The config server's check over the candidate list, and the env server's
\* check with the first candidate as META_APP_SECRET.
CheckSignature ==
    /\ sigOut = SigNone
    /\ sigOut' =
         [config |-> SomeValid(sigIn.body, sigIn.header, sigIn.secrets),
          env |-> verifySignature(sigIn.header, sigIn.body,
                     IF sigIn.secrets = <<>> THEN Absent ELSE sigIn.secrets[1])]
    /\ UNCHANGED <<server, cfg, reqs, log, hist, sigIn, getIn, getOut, itemIn, itemOut, cb, api, env>>

NextSig == CheckSignature

SpecSig == InitSig /\ [][NextSig]_vars

\* C3: a header signed with S verifies exactly when S is among the
\* candidates, and a header that differs from sign(B,S) in one character of
\* the digest does not verify against [S].
C3_SignatureProperty ==
    sigOut # SigNone =>
        \A b \in Bodies, s \in Secrets :
            sigIn.body = b =>
                /\ sigIn.header = Sign(b, s) =>
                     (sigOut.config = "true" <=> s \in Range(sigIn.secrets))
                /\ (sigIn.secrets = <<s>>
                    /\ \E k \in DigestPos, c \in HexChars :
                          c # Sign(b, s)[k] /\ sigIn.header = Subst(Sign(b, s), k, c))
                   => sigOut.config = "false"

C3_Witness ==
    /\ sigOut.config = "true"
    /\ Len(sigIn.secrets) = 2
    /\ sigIn.header = Sign(sigIn.body, sigIn.secrets[2])
    /\ sigIn.secrets[1] # sigIn.secrets[2]

(***************************************************************************)
(* GET verification handshake                                              *)
(***************************************************************************)
\* process.env.X || ""
OrEmpty(x) == IF Truthy(x) THEN x ELSE ""

\* Verify tokens of the global scope alone.
getVerifyTokens_GlobalOnly(c) == {t \in {c.verifyToken} : Truthy(t)}

\* getVerifyTokens() of the config server: the tokens that are set.
getVerifyTokens(c) ==
    {t \in {c.verifyToken, c.igVerify, c.msVerify} : Truthy(t)}

\* getVerifyTokens() of the rag server: VERIFY_TOKEN and
\* INSTAGRAM_ACCESS_TOKEN, each "" when its variable is unset.
getVerifyTokensRag(c) == {OrEmpty(c.verifyToken), OrEmpty(c.igToken)}

Response(status, body) == [status |-> status, body |-> body]

\* handleWebhookVerification with the test of hub.mode left out.
handleWebhookVerification_NoMode(verifyTokens, mode, token, challenge) ==
    IF token \in verifyTokens
    THEN Response(200, challenge)
    ELSE Response(403, "Forbidden")

\* handleWebhookVerification(req, res) of the config and rag servers.
handleWebhookVerification(verifyTokens, mode, token, challenge) ==
    IF mode = "subscribe" /\ token \in verifyTokens
    THEN Response(200, challenge)
    ELSE Response(403, "Forbidden")

\* app.get('/webhook') of the env server.
getWebhook(c, mode, token, challenge) ==
    IF Truthy(mode) /\ Truthy(token)
    THEN IF mode = "subscribe" /\ token = c.verifyToken
         THEN Response(200, challenge)
         ELSE Response(403, "Forbidden")
    ELSE Response(400, "Bad Request")

\* "stateless" is the server of part_004: as "single", without history.
\* "single" is the rag server of part_003: one META_ACCESS_TOKEN
\* and one META_BUSINESS_ACCOUNT_ID (kept in igToken and igBiz here).
Servers == {"config", "env", "rag", "single", "stateless"}

NoSecrets == [appSecret |-> Absent, igSecret |-> Absent, msSecret |-> Absent]

NoTokens ==
    [verifyToken |-> Absent, igVerify |-> Absent, msVerify |-> Absent,
     igToken |-> Absent, msToken |-> Absent]

NoBiz == [igBiz |-> Absent, fbBiz |-> Absent]

\* Record r with the fields of record q added.
Merge(r, q) ==
    [f \in DOMAIN r \cup DOMAIN q |-> IF f \in DOMAIN q THEN q[f] ELSE r[f]]

GetModes == {Absent, "", "subscribe", "unsubscribe"}
GetTokens == {Absent, "", "t1", "t2", "a1"}
GetChallenges == {Absent, "xyz", "123"}

\* No GET request answered yet.
NoResponse == Response(0, "")

InitGet ==
    /\ server \in Servers
    /\ \E vt \in {Absent, "", "t1"}, ig \in {Absent, "t2"}, ms \in {Absent, "t1", "t2"},
          at \in {Absent, "a1"} :
          cfg = Merge(Merge(NoSecrets, NoBiz),
                      [verifyToken |-> vt, igVerify |-> ig, msVerify |-> ms,
                       igToken |-> at, msToken |-> Absent])
    /\ reqs = <<>>
    /\ log = <<>>
    /\ hist = <<>>
    /\ sigIn = Absent
    /\ sigOut = Absent
    /\ getIn = [mode |-> Absent, token |-> Absent, challenge |-> Absent]
    /\ getOut = NoResponse
    /\ itemIn = Absent
    /\ itemOut = Absent
    /\ cb = Absent /\ api = Absent /\ env = Absent

\* One GET request answered by the handler of the running server.
Get ==
    \E mode \in GetModes, token \in GetTokens, challenge \in GetChallenges :
        /\ getIn' = [mode |-> mode, token |-> token, challenge |-> challenge]
        /\ getOut' =
             CASE server = "config" ->
                    handleWebhookVerification(getVerifyTokens(cfg), mode, token, challenge)
               [] server \in {"rag", "single", "stateless"} ->
                    handleWebhookVerification(getVerifyTokensRag(cfg), mode, token, challenge)
               [] server = "env" -> getWebhook(cfg, mode, token, challenge)
        /\ UNCHANGED <<server, cfg, reqs, log, hist, sigIn, sigOut, itemIn, itemOut, cb, api, env>>

NextGet == Get

SpecGet == InitGet /\ [][NextGet]_vars

\* The verify-token set each server resolves from its configuration; the
\* env server compares with META_VERIFY_TOKEN alone.
ResolvedVerifyTokens ==
    CASE server = "config" -> getVerifyTokens(cfg)
      [] server \in {"rag", "single", "stateless"} -> getVerifyTokensRag(cfg)
      [] server = "env" -> {t \in {cfg.verifyToken} : Truthy(t)}

GetAccepted ==
    getIn.mode = "subscribe" /\ getIn.token \in ResolvedVerifyTokens

\* C5 as stated: 200 with the challenge iff mode is 'subscribe' and the
\* token is in the resolved set, and 403 for every other request.
C5_Original ==
    getOut # NoResponse =>
        /\ GetAccepted => getOut = Response(200, getIn.challenge)
        /\ ~GetAccepted => getOut.status = 403

\* C5 amended: 200 with the challenge iff mode is 'subscribe' and the token
\* is in the resolved set; every other request is refused, with 403, except
\* that the env server answers 400 when hub.mode or hub.verify_token is
\* missing or empty.
C5_Handshake ==
    getOut # NoResponse =>
        /\ GetAccepted => getOut = Response(200, getIn.challenge)
        /\ ~GetAccepted =>
             getOut.status =
                IF server = "env" /\ ~(Truthy(getIn.mode) /\ Truthy(getIn.token))
                THEN 400 ELSE 403

C5_Witness ==
    /\ getOut # NoResponse
    /\ server = "config"
    /\ getIn.token = "t2"
    /\ getIn.mode = "subscribe"
    /\ getOut = Response(200, "xyz")
    /\ cfg.verifyToken = "t1"

(***************************************************************************)
(* POST payloads                                                           *)
(*   messaging item: sender / recipient are the ids, Absent when the       *)
(*   sender / recipient object is missing; tags is the set of populated    *)
(*   variant fields; text is message.text.                                 *)
(*   changes item: field and the members of value (nil: value is absent).  *)
(***************************************************************************)
Msg(sender, recipient, tags, text) ==
    [sender |-> sender, recipient |-> recipient, tags |-> tags, text |-> text]

Chg(field, from, media, text) ==
    [field |-> field, nil |-> FALSE, from |-> from, media |-> media, text |-> text,
     sender |-> Absent, recipient |-> Absent, hasMessage |-> FALSE]

CoreMessaging ==
    { Msg("U1", "P1", {"message"}, "hi"),
      Msg("U2", "P1", {"message"}, Absent),
      Msg(Absent, "P1", {"message"}, "hi"),
      Msg("U1", "P2", {"message"}, "hi"),
      Msg("U1", "P1", {}, Absent) }

CoreChanges ==
    { Chg("comments", "U2", "M1", "nice"),
      Chg("comments", "U2", Absent, "nice"),
      Chg("feed", "U2", "M1", "nice") }

Entry(messaging, changes) == [messaging |-> messaging, changes |-> changes]

EntrySize(en) == Len(en.messaging) + Len(en.changes)

\* Entries of at least one and at most n items.
EntriesUpTo(n) ==
    UNION { {Entry(ms, cs) : cs \in SeqsUpTo(CoreChanges, n - Len(ms))} :
              ms \in SeqsUpTo(CoreMessaging, n) } \ {Entry(<<>>, <<>>)}

\* Lists of at most k entries with at most n items altogether.
RECURSIVE EntryLists(_, _)
EntryLists(k, n) ==
    IF k = 0 THEN {<<>>}
    ELSE {<<>>} \cup
         UNION { {<<en>> \o rest : rest \in EntryLists(k - 1, n - EntrySize(en))} :
                   en \in EntriesUpTo(n) }

RECURSIVE ListSize(_)
ListSize(es) == IF es = <<>> THEN 0 ELSE EntrySize(Head(es)) + ListSize(Tail(es))

\* body.entry: a list, absent, or a value that is not iterable.
Payloads ==
    [object : {"page", "instagram"}, ekind : {"list"},
     entries : EntryLists(MaxEntries, MaxItems)]
    \cup [object : {"other", Absent}, ekind : {"list"},
          entries : {<<>>, <<Entry(<<Msg("U1", "P1", {"message"}, "hi")>>, <<>>)>>}]
    \cup [object : {"page", "instagram"}, ekind : {"absent", "notIterable"},
          entries : {<<>>}]

\* X-Hub-Signature-256 of a POST whose raw body is "b1": none, one made
\* with the secret "s1", one made with a secret the server never holds.
PostBody == "b1"
PostHeaders(srv) ==
    IF srv \in {"rag", "single", "stateless"} THEN {AbsentStr}
    ELSE {AbsentStr, Sign(PostBody, "s1"), Sign(PostBody, "s3")}

\* A detection that takes every object that is not 'instagram' for a page.
detectWebhookPlatform_PageByDefault(object) ==
    IF object = "instagram" THEN "instagram" ELSE "messenger"

\* detectWebhookPlatform(payload)
detectWebhookPlatform(object) ==
    IF object = "instagram" THEN "instagram"
    ELSE IF object = "page" THEN "messenger" ELSE Absent

(***************************************************************************)
(* What a handler does with one item: skip it, throw, or make a call.      *)
(***************************************************************************)
Act(act, op, kind, sender, text) ==
    [act |-> act, op |-> op, kind |-> kind, sender |-> sender, text |-> text]

Skip == Act("skip", "-", "-", "-", "-")
Throw == Act("throw", "-", "-", "-", "-")

\* message.text || ''
TextOrEmpty(text) == IF Truthy(text) THEN text ELSE ""

\* A message handler that forwards every message as a postback without text.
handleMessage_AsPostback(it) ==
    IF it.sender = Absent \/ it.recipient = Absent THEN Throw
    ELSE Act("call", "forward", "postback", it.sender, "")

\* handleInstagramMessage / handleMessengerMessage of the config server:
\* event.sender.id and event.recipient.id are read without a guard.
handleMessage(it) ==
    IF it.sender = Absent \/ it.recipient = Absent THEN Throw
    ELSE Act("call", "forward", "message", it.sender, TextOrEmpty(it.text))

\* handleMessengerPostback of the config server.
handleMessengerPostback(it) ==
    IF it.sender = Absent \/ it.recipient = Absent THEN Throw
    ELSE Act("call", "forward", "postback", it.sender, "")

\* handleInstagramComment of the config server: commentData.from.id and
\* commentData.media.id are read without a guard.
handleInstagramComment(ch) ==
    IF ch.nil \/ ch.from = Absent \/ ch.media = Absent THEN Throw
    ELSE Act("call", "forward", "comment", ch.from, ch.text)

\* A field-change handler without the guard on the embedded value.
handleInstagramMessageFieldChange_NoGuard(ch) ==
    IF ch.nil \/ ch.sender = Absent \/ ch.recipient = Absent THEN Throw
    ELSE handleMessage(Msg(ch.sender, ch.recipient, {"message"}, TextOrEmpty(ch.text)))

\* handleInstagramMessageFieldChange of the config server: the guard, then
\* handleInstagramMessage on the normalized event.
handleInstagramMessageFieldChange(ch) ==
    IF ch.nil \/ ch.sender = Absent \/ ch.recipient = Absent \/ ~ch.hasMessage
    THEN Skip
    ELSE handleMessage(Msg(ch.sender, ch.recipient, {"message"}, TextOrEmpty(ch.text)))

\* The loop bodies of processMetaEntry of the config server.
processMetaEntry(platform, ph, it) ==
    IF ph = "messaging"
    THEN IF "message" \in it.tags THEN handleMessage(it)
         ELSE IF platform = "messenger" /\ "postback" \in it.tags
              THEN handleMessengerPostback(it)
              ELSE Skip
    ELSE IF platform # "instagram" THEN Skip
         ELSE IF it.field = "comments" THEN handleInstagramComment(it)
         ELSE IF it.field = "messages" THEN handleInstagramMessageFieldChange(it)
         ELSE Skip

\* handleMessagingEvent of the env server: the first populated tag in the
\* order message, postback, read, delivery; the hook is invoked in any case.
handleMessagingEvent(it) ==
    Act("call", "forward",
        IF "message" \in it.tags THEN "message"
        ELSE IF "postback" \in it.tags THEN "postback"
        ELSE IF "read" \in it.tags THEN "read"
        ELSE IF "delivery" \in it.tags THEN "delivery" ELSE Absent,
        it.sender,
        IF "message" \in it.tags THEN it.text ELSE Absent)

\* handleChangeEvent of the env server.
handleChangeEvent(ch) ==
    Act("call", "forward", ch.field, IF ch.nil THEN Absent ELSE ch.from,
        IF ch.nil THEN Absent ELSE ch.text)

\* The loop bodies of processWebhookEntry of the env server.
processWebhookEntry(ph, it) ==
    IF ph = "messaging" THEN handleMessagingEvent(it) ELSE handleChangeEvent(it)

\* handleInstagramMessage / handleMessengerMessage of the rag server, up to
\* the history load: the anti-echo filter reads event.recipient.id without
\* a guard when a business account id is configured.
handleMessageRag(bizId, it) ==
    IF Truthy(bizId) /\ it.recipient = Absent THEN Throw
    ELSE IF Truthy(bizId) /\ it.recipient # bizId THEN Skip
    ELSE Act("call", "load", "message",
             IF Truthy(it.sender) THEN it.sender ELSE "unknown",
             TextOrEmpty(it.text))

\* The loop body of processMetaEntry of the rag server.
processMetaEntryRag(c, platform, it) ==
    IF "message" \in it.tags
    THEN handleMessageRag(IF platform = "instagram" THEN c.igBiz ELSE c.fbBiz, it)
    ELSE Skip

\* The loop body of processMetaEntry of the single-account server: its
\* handleMessengerMessage does not look at the recipient.
processMetaEntrySingle(c, platform, it) ==
    IF "message" \in it.tags
    THEN handleMessageRag(IF platform = "instagram" THEN c.igBiz ELSE Absent, it)
    ELSE Skip

\* handleInstagramMessage / handleMessengerMessage of the stateless server:
\* the same filter, then generateLLMResponse on the text at once.
handleMessageStateless(bizId, it) ==
    IF Truthy(bizId) /\ it.recipient = Absent THEN Throw
    ELSE IF Truthy(bizId) /\ it.recipient # bizId THEN Skip
    ELSE Act("call", "produce", "message", it.sender, TextOrEmpty(it.text))

\* The loop body of processMetaEntry of the stateless server.
processMetaEntryStateless(c, platform, it) ==
    IF "message" \in it.tags
    THEN handleMessageStateless(IF platform = "instagram" THEN c.igBiz ELSE Absent, it)
    ELSE Skip

\* The servers that answer by themselves (producer, delivery, history).
Answering == {"rag", "single", "stateless"}

(***************************************************************************)
(* The dispatch loops. A handler runs without interruption from one await  *)
(* of a downstream call to the next; Scan finds the next call starting at  *)
(* item i of phase ph of entry e. acc is processedMessages of the rag      *)
(* server for the entry being worked on.                                   *)
(***************************************************************************)
Stop == [st |-> "done", e |-> 0, ph |-> "-", i |-> 0, call |-> Skip, acc |-> <<>>]

Await(e, ph, i, call, acc) ==
    [st |-> "run", e |-> e, ph |-> ph, i |-> i, call |-> call, acc |-> acc]

\* The items of an entry walked from the last to the first.
ItemsOf_Reversed(q, e, ph) ==
    LET items == IF ph = "messaging" THEN q.entries[e].messaging
                 ELSE q.entries[e].changes
    IN [k \in 1..Len(items) |-> items[Len(items) + 1 - k]]

\* for (const event of messaging) / for (const change of changes)
ItemsOf(q, e, ph) ==
    IF ph = "messaging" THEN q.entries[e].messaging ELSE q.entries[e].changes

Dispatch(srv, c, platform, ph, it) ==
    CASE srv = "config" -> processMetaEntry(platform, ph, it)
      [] srv = "env" -> processWebhookEntry(ph, it)
      [] srv = "rag" -> processMetaEntryRag(c, platform, it)
      [] srv = "single" -> processMetaEntrySingle(c, platform, it)
      [] srv = "stateless" -> processMetaEntryStateless(c, platform, it)

\* The rethrowing variant: a failed call aborts the request.
Caught_Rethrow(op, out) == out # "fail"

\* Is an error thrown by the downstream call op caught where the call is
\* made (forwardToOpenClaw, handleMessagingEvent / handleChangeEvent,
\* generateLLMResponse, sendToGraphAPI, load- and saveConversationHistory)?
Caught(op, out) == TRUE

\* The host of the fetch of sendToGraphAPI: graph.${platform}.com with
\* platform 'instagram' or 'facebook' in the rag server, graph.instagram.com
\* in the single-account servers.
graphHost(srv, platform) ==
    IF srv = "rag" /\ platform # "instagram" THEN "graph.facebook.com"
    ELSE "graph.instagram.com"

\* The configuration field whose token is the Bearer token of that fetch
\* (igToken holds META_ACCESS_TOKEN of the single-account servers).
graphToken(srv, platform) ==
    IF srv = "rag" /\ platform = "messenger" THEN "msToken" ELSE "igToken"

\* sendToGraphAPI(message.senderId, message.responseMessage, ...)
DeliverCall(m) == Act("call", "deliver", "message", m.senderId, m.responseMessage)

RECURSIVE Scan(_, _, _, _, _, _, _)
Scan(srv, c, q, e, ph, i, acc) ==
    IF e > Len(q.entries) THEN Stop
    ELSE IF ph = "deliver"
    THEN IF i > Len(acc)
         THEN Scan(srv, c, q, e + 1, "messaging", 1, <<>>)
         ELSE Await(e, ph, i, DeliverCall(acc[i]), acc)
    ELSE IF i > Len(ItemsOf(q, e, ph))
    THEN IF ph = "messaging"
         THEN Scan(srv, c, q, e, IF srv \in Answering THEN "deliver"
                                 ELSE "changes", 1, acc)
         ELSE Scan(srv, c, q, e + 1, "messaging", 1, <<>>)
    ELSE LET a == Dispatch(srv, c, detectWebhookPlatform(q.object), ph,
                           ItemsOf(q, e, ph)[i])
         IN IF a.act = "skip" THEN Scan(srv, c, q, e, ph, i + 1, acc)
            ELSE IF a.act = "throw" THEN Stop
            ELSE Await(e, ph, i, a, acc)

(***************************************************************************)
(* Requests                                                                *)
(***************************************************************************)
IdleReq ==
    [st |-> "idle", object |-> Absent, ekind |-> "list", entries |-> <<>>,
     header |-> AbsentStr, resp |-> <<>>, unhandled |-> FALSE,
     verified |-> "skipped",
     e |-> 0, ph |-> "-", i |-> 0, op |-> "none", call |-> Skip,
     acc |-> <<>>, chat |-> <<>>]

\* A handler that never writes its response.
sendStatus_Never(resp, code) == resp

\* res.sendStatus(code) / res.status(code).send(body)
sendStatus(resp, code) == Append(resp, code)

\* express.json({verify}) in front of a route: a request whose body an
\* earlier parser already parsed is passed on untouched; otherwise verify
\* runs, and only an error thrown by it rejects the request (its return
\* value is not looked at).
jsonParser(alreadyParsed, verifyResult) ==
    IF alreadyParsed THEN "next"
    ELSE IF verifyResult = "throw" THEN "reject" ELSE "next"

\* What the verify hook of that parser found: nothing when the parser
\* passed the request on without reading it.
verifyOutcome(alreadyParsed, verifyResult) ==
    IF alreadyParsed THEN "skipped" ELSE verifyResult

\* JSON.stringify(JSON.parse(bytes)): the body "b1" comes back as "b2".
Reserialize(bytes) == IF bytes = "b1" THEN "b2" ELSE bytes

\* A body parser that keeps the re-serialized parsed body instead.
rawBody_Reserialized(bytes) == Reserialize(bytes)

\* verify: (req, res, buf) => { req.rawBody = buf; }
rawBody(bytes) == bytes

\* The state of request q at its first await (or at its end); verified is
\* the result of the signature check where one ran.
\* handleMetaWebhookEvent(req, res) of the config server.
handleMetaWebhookEvent(c, q) ==
    LET platform == detectWebhookPlatform(q.object)
        r1 == [q EXCEPT !.resp = sendStatus(q.resp, 200)]
        isValidSignature ==
            SomeValid(rawBody(PostBody), q.header, getCandidateSecrets(c, platform))
        r2 == [r1 EXCEPT !.verified = isValidSignature]
    IN IF platform = Absent THEN <<r1, Stop>>
       ELSE IF isValidSignature # "true" THEN <<r2, Stop>>
       ELSE IF q.ekind = "notIterable" THEN <<r2, Stop>>
       ELSE <<r2, Scan("config", c, q, 1, "messaging", 1, <<>>)>>

\* app.post('/webhook', express.json({verify: verifySignature}), ...) of the
\* env server, behind app.use(express.json()).
postWebhook(c, q) ==
    LET v == verifySignature(q.header, PostBody, c.appSecret)
        q0 == [q EXCEPT !.verified = verifyOutcome(TRUE, v)]
    IN
    IF jsonParser(TRUE, v) = "reject"
    THEN <<[q0 EXCEPT !.resp = sendStatus(q.resp, 403)], Stop>>
    ELSE LET r1 == [q0 EXCEPT !.resp = sendStatus(q.resp, 200)]
         IN IF q.object \notin {"page", "instagram"} THEN <<r1, Stop>>
            ELSE IF q.ekind # "list"
            THEN <<[r1 EXCEPT !.unhandled = TRUE], Stop>>
            ELSE <<r1, Scan("env", c, q, 1, "messaging", 1, <<>>)>>

\* handleMetaWebhookEvent(vectorStore, req, res) of the rag servers.
handleMetaWebhookEventRag(srv, c, q) ==
    LET r1 == [q EXCEPT !.resp = sendStatus(q.resp, 200)]
    IN IF detectWebhookPlatform(q.object) = Absent THEN <<r1, Stop>>
       ELSE IF q.ekind = "notIterable" THEN <<r1, Stop>>
       ELSE <<r1, Scan(srv, c, q, 1, "messaging", 1, <<>>)>>

Handler(srv, c, q) ==
    CASE srv = "config" -> handleMetaWebhookEvent(c, q)
      [] srv = "env" -> postWebhook(c, q)
      [] srv \in Answering -> handleMetaWebhookEventRag(srv, c, q)

\* One record of the log: the call op made, or its return with outcome out,
\* for item i of phase ph of entry e of request r.
LogRec(r, ev, e, ph, i, call, out) ==
    [r |-> r, ev |-> ev, op |-> call.op, e |-> e, ph |-> ph, i |-> i,
     kind |-> call.kind, sender |-> call.sender, text |-> call.text, out |-> out,
     status |-> 0]

\* The record of the HTTP response written for request r.
RespRec(r, status) ==
    [LogRec(r, "resp", 0, "-", 0, Skip, "-") EXCEPT !.status = status]

\* The log with the responses resp written for request r.
RECURSIVE Responded(_, _, _)
Responded(lg, r, resp) ==
    IF resp = <<>> THEN lg
    ELSE Responded(Append(lg, RespRec(r, Head(resp))), r, Tail(resp))

\* The item a position stands for: in the deliver phase, the item that the
\* processed message came from.
ItemIndex(s) == IF s.ph = "deliver" THEN s.acc[s.i].i ELSE s.i

\* Request q moved on to position s, and the log with the call made there.
Moved(q, s) ==
    [q EXCEPT !.st = s.st, !.e = s.e, !.ph = s.ph, !.i = s.i,
              !.op = IF s.st = "run" THEN s.call.op ELSE "none",
              !.call = s.call, !.acc = s.acc]

Logged(lg, r, s) ==
    IF s.st = "run"
    THEN Append(lg, LogRec(r, "call", s.e, IF s.ph = "deliver" THEN "messaging" ELSE s.ph,
                           ItemIndex(s), s.call, "-"))
    ELSE lg

\* Items of the payloads received so far.
RECURSIVE UsedItems(_)
UsedItems(k) == IF k = 0 THEN 0 ELSE ListSize(reqs[k].entries) + UsedItems(k - 1)

SenderIds == {"U1", "U2", "unknown"}

CoreConfigs ==
    {Merge(Merge(NoTokens, NoBiz), [appSecret |-> a, igSecret |-> Absent,
                                    msSecret |-> Absent]) : a \in {Absent, "s1"}}
    \cup {Merge(Merge(NoTokens, NoSecrets), [igBiz |-> "P1", fbBiz |-> "P1"])}

\* The configurations a server is run with: signing secrets matter to the
\* config and env servers only, business-account ids to the others. The
\* env server is run with META_APP_SECRET set.
ConfigsOf(srv) ==
    IF srv \in Answering
    THEN {c \in CoreConfigs : c.appSecret = Absent /\ (srv \in {"single", "stateless"} => Truthy(c.igBiz))}
    ELSE {c \in CoreConfigs :
            ~Truthy(c.igBiz) /\ (srv = "env" => Truthy(c.appSecret))}

Init ==
    /\ server \in Servers
    /\ cfg \in ConfigsOf(server)
    /\ reqs = [r \in 1..NReq |-> IdleReq]
    /\ log = <<>>
    /\ hist = [u \in SenderIds |-> <<>>]
    /\ sigIn = Absent
    /\ sigOut = Absent
    /\ getIn = Absent
    /\ getOut = Absent
    /\ itemIn = Absent
    /\ itemOut = Absent
    /\ cb = Absent /\ api = Absent /\ env = Absent

\* Synchronous downstream calls: no request is taken while a call is pending.
eventLoopFree_Blocking(rs) == \A k \in DOMAIN rs : rs[k].st # "run"

\* Every downstream call is awaited (await fetch / axios / readFile ...), so
\* the event loop takes the next request while calls are pending.
eventLoopFree(rs) == TRUE

\* A POST arrives and its handler runs up to its first await.
Receive(r) ==
    /\ eventLoopFree(reqs)
    /\ reqs[r].st = "idle"
    /\ \A k \in 1..(r - 1) : reqs[k].st # "idle"
    /\ \E p \in Payloads, h \in PostHeaders(server) :
          /\ ListSize(p.entries) <= MaxItems - UsedItems(NReq)
          /\ LET q == [IdleReq EXCEPT !.object = p.object, !.ekind = p.ekind,
                                      !.entries = p.entries, !.header = h]
                 hs == Handler(server, cfg, q)
             IN /\ reqs' = [reqs EXCEPT ![r] = Moved(hs[1], hs[2])]
                /\ log' = Logged(Responded(log, r, hs[1].resp), r, hs[2])
    /\ UNCHANGED <<server, cfg, hist, sigIn, sigOut, getIn, getOut, itemIn, itemOut, cb, api, env>>

\* Downstream calls that did not succeed so far.
Failures == Cardinality({k \in 1..Len(log) : log[k].out \in {"fail", "empty"}})

\* Outcomes of the pending call of q: success, failure (an error thrown or
\* a non-2xx status), and for the producer an empty reply. A history file
\* that does not exist yet reads as "" ("none").
Outcomes(q) ==
    IF q.op = "load" /\ hist[q.call.sender] = <<>> THEN {"none"}
    ELSE IF Failures >= MaxFail THEN {"ok"}
    ELSE IF q.op = "produce" THEN {"ok", "empty", "fail"}
    ELSE {"ok", "fail"}

\* The reply the producer makes.
Reply == "re"

\* A handler that returns a reply record whatever the producer gave.
hasResponse_Always(out) == TRUE

\* if (!responseMessage) return;  -- only a non-empty reply is kept.
hasResponse(out) == out = "ok"

\* A loop that stays on an item whose call failed, and makes the call again.
AfterCall_Retry(i, out) == IF out = "fail" THEN i ELSE i + 1

\* The loops go on to the next item after a call, whatever its outcome
\* (the catch blocks log the error and return).
AfterCall(i, out) == i + 1

\* A delivery addressed to the sender of the event the reply was made for.
firstSender_Own(q, own) == own

\* entries[0]?.messaging?.[0]?.sender?.id || "unknown" of the stateless server.
firstSender(q, own) ==
    IF q.entries # <<>> /\ q.entries[1].messaging # <<>>
       /\ Truthy(q.entries[1].messaging[1].sender)
    THEN q.entries[1].messaging[1].sender
    ELSE "unknown"

\* The recipient of the reply to the event of the returned producer call:
\* message.senderId of the record the rag servers keep; in the stateless
\* server the one sender read before the loop.
replyRecipient(srv, q) ==
    IF srv = "stateless" THEN firstSender(q, q.call.sender) ELSE q.call.sender

\* The position after the pending call of q returned out.
Resume(srv, c, q, out) ==
    IF ~Caught(q.op, out) THEN Stop
    ELSE CASE q.op = "forward" ->
                Scan(srv, c, q, q.e, q.ph, AfterCall(q.i, out), q.acc)
           [] q.op = "load" ->
                Await(q.e, q.ph, q.i, [q.call EXCEPT !.op = "produce"], q.acc)
           [] q.op = "produce" ->
                Scan(srv, c, q, q.e, q.ph, q.i + 1,
                     IF hasResponse(out)
                     THEN Append(q.acc, [i |-> q.i, senderId |-> replyRecipient(srv, q),
                                         userMessage |-> q.call.text,
                                         responseMessage |-> Reply])
                     ELSE q.acc)
           [] q.op = "deliver" ->
                IF detectWebhookPlatform(q.object) = "instagram" /\ srv # "stateless"
                THEN Await(q.e, q.ph, q.i,
                           Act("call", "append", "message", q.acc[q.i].senderId,
                               q.acc[q.i].userMessage), q.acc)
                ELSE Scan(srv, c, q, q.e, q.ph, AfterCall(q.i, out), q.acc)
           [] q.op = "append" -> Scan(srv, c, q, q.e, q.ph, q.i + 1, q.acc)

\* The pending call of request r returns, and the handler runs on to its
\* next await.
Return(r) ==
    /\ reqs[r].st = "run"
    /\ \E out \in Outcomes(reqs[r]) :
          LET q == reqs[r]
              s == Resume(server, cfg, q, out)
              lg == Append(log, LogRec(r, "ret", q.e,
                                       IF q.ph = "deliver" THEN "messaging" ELSE q.ph,
                                       ItemIndex(q), q.call, out))
          IN /\ reqs' = [reqs EXCEPT ![r] =
                   [Moved(q, s) EXCEPT !.chat =
                       IF q.op = "load"
                       THEN (IF out = "ok" THEN hist[q.call.sender] ELSE <<>>)
                       ELSE q.chat]]
             /\ log' = Logged(lg, r, s)
             /\ hist' = IF q.op = "append" /\ out = "ok"
                        THEN [hist EXCEPT ![q.call.sender] =
                                 Append(@, <<q.call.text, q.acc[q.i].responseMessage>>)]
                        ELSE hist
    /\ UNCHANGED <<server, cfg, sigIn, sigOut, getIn, getOut, itemIn, itemOut, cb, api, env>>

Next == \E r \in 1..NReq : Receive(r) \/ Return(r)

Spec == Init /\ [][Next]_vars

(***************************************************************************)
(* Claims about POST handling                                              *)
(***************************************************************************)
Reqs == 1..NReq

LogIdx == 1..Len(log)

\* The configured signing secrets of the running server.
ConfiguredSecrets ==
    {x \in (IF server = "env" THEN {cfg.appSecret}
            ELSE {cfg.appSecret, cfg.igSecret, cfg.msSecret}) : Truthy(x)}

\* Was any event of request r handed to the producer / OpenClaw?
Invoked(r) == \E k \in LogIdx : log[k].r = r /\ log[k].op \in {"forward", "produce"}

\* C1: a POST whose signature header is missing, or is not the signature
\* of the raw body under any configured secret, never causes an invocation
\* of the OpenClaw hook, in the config server and in the env server.
C1_NoHookOnBadSignature ==
    \A r \in Reqs :
        (/\ reqs[r].st # "idle"
         /\ server \in {"config", "env"}
         /\ \/ reqs[r].header = AbsentStr
            \/ \A x \in ConfiguredSecrets : reqs[r].header # Sign(PostBody, x))
        => ~Invoked(r)

\* C4: verification fails closed: with the header absent, without the
\* 'sha256=' prefix, or with no secret configured the request is not
\* processed.
C4_FailsClosed ==
    \A r \in Reqs :
        (/\ reqs[r].st # "idle"
         /\ server \in {"config", "env"}
         /\ \/ ~TruthyStr(reqs[r].header)
            \/ IndexOf(reqs[r].header, Prefix) # 1
            \/ ConfiguredSecrets = {})
        => \A k \in LogIdx : log[k].r = r => log[k].ev = "resp"

\* C2: the 200 response of a request is written before any downstream call
\* made for it, and the response on the wire is that one 200 whatever the
\* calls do afterwards.
C2_AckBeforeProcessing ==
    /\ \A r \in Reqs : reqs[r].st # "idle" => reqs[r].resp = <<200>>
    /\ \A k \in LogIdx :
          log[k].ev = "call" =>
              \E j \in 1..(k - 1) :
                  log[j].ev = "resp" /\ log[j].r = log[k].r /\ log[j].status = 200

C2_Witness ==
    \E r \in Reqs, k \in LogIdx :
        /\ reqs[r].st = "done"
        /\ reqs[r].resp = <<200>>
        /\ log[k].r = r /\ log[k].ev = "ret" /\ log[k].out = "fail"

\* Item positions <<entry, phase, index>> of the payload of request r, in
\* the order of the payload: the messaging items of an entry, then its
\* changes items, entry after entry.
Positions(r) ==
    UNION { {<<e, "messaging", i>> : i \in 1..Len(reqs[r].entries[e].messaging)}
            \cup {<<e, "changes", i>> : i \in 1..Len(reqs[r].entries[e].changes)} :
              e \in 1..Len(reqs[r].entries) }

PhRank(ph) == IF ph = "messaging" THEN 1 ELSE 2

Before(a, b) ==
    \/ a[1] < b[1]
    \/ a[1] = b[1] /\ PhRank(a[2]) < PhRank(b[2])
    \/ a[1] = b[1] /\ a[2] = b[2] /\ a[3] < b[3]

ItemAt(r, p) ==
    IF p[2] = "messaging" THEN reqs[r].entries[p[1]].messaging[p[3]]
    ELSE reqs[r].entries[p[1]].changes[p[3]]

\* What the running server does with the item at position p of request r
\* (the rag server reads the messaging list of an entry only).
Class(r, p) ==
    IF server \in Answering /\ p[2] = "changes" THEN Skip
    ELSE Dispatch(server, cfg, detectWebhookPlatform(reqs[r].object), p[2],
                  ItemAt(r, p))

PosOf(rec) == <<rec.e, rec.ph, rec.i>>

\* The event at position p of request r was handed on: forwarded, or
\* started on its way to the producer.
Processed(r, p) ==
    \E k \in LogIdx :
        /\ log[k].r = r /\ log[k].ev = "call"
        /\ log[k].op \in {"forward", "load", "produce"} /\ PosOf(log[k]) = p

Delivered(r, p) ==
    \E k \in LogIdx :
        log[k].r = r /\ log[k].ev = "call" /\ log[k].op = "deliver" /\ PosOf(log[k]) = p

\* C6: a failed producer, forward, delivery or history call of one event
\* stops nothing: once the request is finished, every later event that the
\* server acts on was processed, and every later reply was delivered.
C6_ErrorContainment ==
    \A r \in Reqs, k \in LogIdx :
        (/\ reqs[r].st = "done"
         /\ log[k].r = r /\ log[k].ev = "ret" /\ log[k].out = "fail")
        => /\ \A p \in Positions(r) :
                (/\ Before(PosOf(log[k]), p)
                 /\ Class(r, p).act = "call"
                 /\ \A t \in Positions(r) :
                       Before(PosOf(log[k]), t) /\ Before(t, p)
                           => Class(r, t).act # "throw")
                => Processed(r, p)
           /\ \A j \in LogIdx :
                (/\ log[j].r = r /\ log[j].ev = "ret" /\ log[j].op = "produce"
                 /\ log[j].out = "ok"
                 /\ log[k].op \in {"deliver", "append"}
                 /\ log[j].e = log[k].e)
                => Delivered(r, PosOf(log[j]))

C6_Witness ==
    \E r \in Reqs, k \in LogIdx :
        /\ reqs[r].st = "done"
        /\ log[k].r = r /\ log[k].ev = "ret" /\ log[k].out = "fail"
        /\ \E p \in Positions(r) : Before(PosOf(log[k]), p) /\ Processed(r, p)

\* The handler of request r got as far as its loop over the entries.
Accepted(r) ==
    /\ reqs[r].st # "idle"
    /\ detectWebhookPlatform(reqs[r].object) # Absent
    /\ reqs[r].ekind = "list"
    /\ server = "config" =>
          \E x \in ConfiguredSecrets : reqs[r].header = Sign(PostBody, x)

\* C7: a malformed item costs only itself: when the request is finished,
\* every item that the server acts on was forwarded, whatever malformed
\* items the payload holds besides.
C7_MalformedItemSkipped ==
    \A r \in Reqs :
        reqs[r].st = "done" /\ Accepted(r)
        => \A p \in Positions(r) : Class(r, p).act = "call" => Processed(r, p)

\* C8: for two events of one sender, the history load of the one never
\* falls between the history load and the history append of the other.
C8_NoInterleavedHistory ==
    \A a, b, c \in LogIdx :
        (/\ a < b /\ b < c
         /\ log[a].ev = "call" /\ log[a].op = "load"
         /\ log[c].ev = "call" /\ log[c].op = "append"
         /\ log[c].r = log[a].r /\ PosOf(log[c]) = PosOf(log[a])
         /\ log[b].ev = "call" /\ log[b].op = "load")
        => log[b].sender # log[a].sender

\* C9: no history append is made for a reply whose delivery failed.
C9_AppendOnlyAfterDelivery ==
    \A k, j \in LogIdx :
        (/\ log[k].ev = "ret" /\ log[k].op = "deliver" /\ log[k].out = "fail"
         /\ log[j].r = log[k].r /\ PosOf(log[j]) = PosOf(log[k]))
        => log[j].op # "append"

\* The sender id a server derives from an item.
SenderOf(r, p) ==
    LET it == ItemAt(r, p)
        id == IF p[2] = "messaging" THEN it.sender ELSE it.from
    IN IF server \in {"rag", "single"} /\ ~Truthy(id) THEN "unknown" ELSE id

\* C10: the calls of one kind made for one request follow the order of the
\* payload (entries in payload order, items in the order of their list),
\* and each is made for the item at its place (whom the stateless server
\* addresses a delivery to is another matter, see C35).
C10_OrderPreserved ==
    \A a, b \in LogIdx :
        (/\ log[a].ev = "call" /\ log[b].ev = "call"
         /\ log[a].r = log[b].r /\ log[a].op = log[b].op)
        => /\ a < b => Before(PosOf(log[a]), PosOf(log[b]))
           /\ \/ server = "stateless" /\ log[a].op = "deliver"
              \/ log[a].sender = SenderOf(log[a].r, PosOf(log[a]))

C10_Witness ==
    \E a, b \in LogIdx :
        /\ a < b
        /\ log[a].ev = "call" /\ log[b].ev = "call"
        /\ log[a].r = log[b].r /\ log[a].op = log[b].op
        /\ log[a].e = log[b].e
        /\ log[a].sender # log[b].sender

\* Some downstream call was made for request r.
Called(r) == \E k \in LogIdx : log[k].r = r /\ log[k].ev = "call"

\* C11: a POST whose object is neither 'instagram' nor 'page' (or is
\* absent) is detected as no platform, is answered 200 and nothing else,
\* raises no error, and leads to no downstream call.
C11_UnsupportedPlatform ==
    \A r \in Reqs :
        (reqs[r].st # "idle" /\ reqs[r].object \notin {"instagram", "page"})
        => /\ detectWebhookPlatform(reqs[r].object) = Absent
           /\ reqs[r].st = "done"
           /\ reqs[r].resp = <<200>>
           /\ ~reqs[r].unhandled
           /\ ~Called(r)

C11_Witness ==
    \E r \in Reqs :
        /\ reqs[r].st = "done"
        /\ reqs[r].object = Absent
        /\ reqs[r].entries = <<Entry(<<Msg("U1", "P1", {"message"}, "hi")>>, <<>>)>>
        /\ reqs[r].resp = <<200>>

\* The calls made for request r that hand an event to OpenClaw or to the
\* Response Producer.
Invocations(r) ==
    {k \in LogIdx : log[k].r = r /\ log[k].ev = "call"
                    /\ log[k].op \in {"forward", "produce"}}

\* Request r carries a signature made with a configured secret (the
\* answering servers check none).
Signed(r) ==
    server \in Answering
    \/ \E x \in ConfiguredSecrets : reqs[r].header = Sign(PostBody, x)

\* Request r is a page payload of one entry with the one text message m.
OneMessage(r, m) ==
    /\ reqs[r].object = "page" /\ reqs[r].ekind = "list"
    /\ reqs[r].entries = <<Entry(<<m>>, <<>>)>>
    /\ "message" \in m.tags
    /\ Truthy(m.sender) /\ Truthy(m.text)
    /\ m.recipient = "P1"

OneComment(r, c) ==
    /\ reqs[r].object = "instagram" /\ reqs[r].ekind = "list"
    /\ reqs[r].entries = <<Entry(<<>>, <<c>>)>>
    /\ c.field = "comments" /\ ~c.nil
    /\ Truthy(c.from) /\ Truthy(c.text)

\* C13: in the server that forwards normalized events, a finished, signed
\* Instagram request with one comment by U with text X has made exactly one
\* forward, of kind comment with sender U and text X, whatever else the
\* value of the change holds.
C13_CommentForwarded ==
    \A r \in Reqs, c \in CoreChanges :
        (/\ server = "config"
         /\ reqs[r].st = "done" /\ Signed(r) /\ OneComment(r, c))
        => /\ Cardinality(Invocations(r)) = 1
           /\ \A k \in Invocations(r) :
                 /\ log[k].kind = "comment"
                 /\ log[k].sender = c.from
                 /\ log[k].text = c.text

\* The item at position p of request r has no shape a server knows: a
\* messaging item with none of message, postback, read, delivery, or a
\* change of a field other than comments and messages.
Unrecognized(r, p) ==
    IF p[2] = "messaging" THEN ItemAt(r, p).tags = {}
    ELSE ItemAt(r, p).field \notin {"comments", "messages"}

\* C14: an item of unrecognized shape raises no error and is not handed to
\* OpenClaw or the Response Producer.
C14_UnrecognizedDropped ==
    \A r \in Reqs :
        reqs[r].st # "idle"
        => \A p \in Positions(r) :
              Unrecognized(r, p)
              => /\ Class(r, p).act # "throw"
                 /\ \A k \in Invocations(r) : PosOf(log[k]) # p

\* The business-account id configured for the platform of request r.
BizOf(r) ==
    IF server = "rag" /\ detectWebhookPlatform(reqs[r].object) = "messenger"
    THEN cfg.fbBiz ELSE cfg.igBiz

\* Some call (history load, producer, delivery, history append) was made
\* for the item at position p of request r.
Touched(r, p) ==
    \E k \in LogIdx : log[k].r = r /\ log[k].ev = "call" /\ PosOf(log[k]) = p

\* C15: in the answering servers, on either platform, a message whose
\* recipient differs from the configured business-account id gets no
\* producer, delivery or history call; a message whose recipient equals
\* it, or any message when no id is configured, is processed by the time
\* the request is finished.
C15_AntiEcho ==
    \A r \in Reqs :
        (/\ server \in Answering /\ reqs[r].st # "idle"
         /\ detectWebhookPlatform(reqs[r].object) # Absent)
        => \A p \in Positions(r) :
              (p[2] = "messaging" /\ "message" \in ItemAt(r, p).tags)
              => IF Truthy(BizOf(r)) /\ ItemAt(r, p).recipient # BizOf(r)
                 THEN ~Touched(r, p)
                 ELSE reqs[r].st = "done" => Processed(r, p)

\* C16: when the producer gave no content for an event (an empty reply, or
\* a failure that generateLLMResponse caught), no delivery call and no
\* history append is made for that event.
C16_NoContentStops ==
    \A k, j \in LogIdx :
        (/\ log[k].ev = "ret" /\ log[k].op = "produce"
         /\ log[k].out \in {"empty", "fail"}
         /\ log[j].r = log[k].r /\ PosOf(log[j]) = PosOf(log[k]))
        => log[j].op \notin {"deliver", "append"}

C16_Witness ==
    \E k \in LogIdx :
        /\ log[k].ev = "ret" /\ log[k].op = "produce" /\ log[k].out = "empty"
        /\ reqs[log[k].r].st = "done"

\* C17: every event handed to OpenClaw or to the Response Producer carries
\* a sender id that is neither absent nor empty.
C17_SenderIdNonEmpty ==
    \A r \in Reqs : \A k \in Invocations(r) : Truthy(log[k].sender)

\* C18: the text of every message event handed to OpenClaw or to the
\* Response Producer is a string: the empty string when the message has
\* no text, never an absent value.
C18_EmptyTextDefault ==
    \A r \in Reqs : \A k \in Invocations(r) :
        log[k].kind = "message"
        => /\ log[k].text # Absent
           /\ ~Truthy(ItemAt(r, PosOf(log[k])).text) => log[k].text = ""

\* C19: in the servers that check signatures, a POST of a supported
\* platform whose signature is not valid is answered with status 401.
C19_InvalidSignature401 ==
    \A r \in Reqs :
        (/\ server \notin Answering /\ reqs[r].st # "idle"
         /\ detectWebhookPlatform(reqs[r].object) # Absent
         /\ ~Signed(r))
        => reqs[r].resp = <<401>>

\* C20: a forward that failed is made again: when the request is finished,
\* every failed forward of an event is followed by another forward call for
\* the same event.
C20_ForwardRetried ==
    \A r \in Reqs, k \in LogIdx :
        (/\ reqs[r].st = "done"
         /\ log[k].r = r /\ log[k].ev = "ret" /\ log[k].op = "forward"
         /\ log[k].out = "fail")
        => \E j \in LogIdx :
              /\ j > k
              /\ log[j].r = r /\ log[j].ev = "call" /\ log[j].op = "forward"
              /\ PosOf(log[j]) = PosOf(log[k])

\* The delivery calls made for the item at position p of request r.
Deliveries(r, p) ==
    {k \in LogIdx : log[k].r = r /\ log[k].ev = "call" /\ log[k].op = "deliver"
                    /\ PosOf(log[k]) = p}

C22_SingleResponse ==
    \A r \in Reqs : Len(reqs[r].resp) <= 1 /\ ~reqs[r].unhandled

(***************************************************************************)
(* SpecTrust: the candidate secrets of the config server and its check of  *)
(* a signature header, for every configuration of the three secret scopes. *)
(***************************************************************************)
TrustSecrets == {Absent, "s1", "s2", "s3"}

TrustNone == [candidates |-> <<>>, accepted |-> "none"]

InitTrust ==
    /\ server = "config"
    /\ \E a \in TrustSecrets \cup {""}, i \in TrustSecrets, m \in TrustSecrets :
          cfg = Merge(Merge(NoTokens, NoBiz),
                      [appSecret |-> a, igSecret |-> i, msSecret |-> m])
    /\ reqs = <<>>
    /\ log = <<>>
    /\ hist = <<>>
    /\ getIn = Absent
    /\ getOut = Absent
    /\ itemIn = Absent
    /\ itemOut = Absent
    /\ cb = Absent /\ api = Absent /\ env = Absent
    /\ sigIn \in [platform : {"instagram", "messenger"},
                  header : {AbsentStr} \cup {Sign(PostBody, x) : x \in Secrets}]
    /\ sigOut = TrustNone

\* The signature step of handleMetaWebhookEvent.
CheckTrust ==
    /\ sigOut = TrustNone
    /\ LET candidateSecrets == getCandidateSecrets(cfg, sigIn.platform)
       IN sigOut' = [candidates |-> candidateSecrets,
                     accepted |-> SomeValid(PostBody, sigIn.header, candidateSecrets)]
    /\ UNCHANGED <<server, cfg, reqs, log, hist, sigIn, getIn, getOut, itemIn, itemOut, cb, api, env>>

NextTrust == CheckTrust

SpecTrust == InitTrust /\ [][NextTrust]_vars

\* The secret of the detected platform, and that of the other platform.
OwnSecret == IF sigIn.platform = "instagram" THEN cfg.igSecret ELSE cfg.msSecret
OtherSecret == IF sigIn.platform = "instagram" THEN cfg.msSecret ELSE cfg.igSecret

\* The candidate list holds each configured secret once and nothing else,
\* and is ordered by the first of the scopes first, second, third that
\* holds the secret.
OrderedBy(first, second, third) ==
    LET rank(x) == IF x = first THEN 1 ELSE IF x = second THEN 2 ELSE 3
        cs == sigOut.candidates
    IN /\ Range(cs) = {x \in {first, second, third} : Truthy(x)}
       /\ \A j, k \in 1..Len(cs) : j < k => rank(cs[j]) < rank(cs[k])

\* C23 as stated: the platform's own secret first, then the global secret,
\* then the secret of the other platform.
C23_Original ==
    sigOut # TrustNone => OrderedBy(OwnSecret, cfg.appSecret, OtherSecret)

\* C23: the candidates are the global secret first, then the platform's
\* own secret, then the secret of the other platform, each if set and each
\* once.
C23_CandidateOrder ==
    sigOut # TrustNone => OrderedBy(cfg.appSecret, OwnSecret, OtherSecret)

C23_Witness ==
    /\ sigOut # TrustNone
    /\ Len(sigOut.candidates) = 3
    /\ sigOut.candidates = <<cfg.appSecret, OwnSecret, OtherSecret>>

\* C24: a POST detected as platform P is accepted exactly when its
\* signature header is the signature of the raw body under some configured
\* secret: the global one, P's own, or the other platform's.
C24_CrossPlatformTrust ==
    sigOut # TrustNone =>
        (sigOut.accepted = "true"
         <=> \E x \in {cfg.appSecret, cfg.igSecret, cfg.msSecret} :
                Truthy(x) /\ sigIn.header = Sign(PostBody, x))

C24_Witness ==
    /\ sigOut.accepted = "true"
    /\ sigIn.header = Sign(PostBody, OtherSecret)
    /\ OtherSecret \notin {cfg.appSecret, OwnSecret}
    /\ Truthy(cfg.appSecret) /\ Truthy(OwnSecret)

\* C25: in the config server a subscribe handshake is accepted exactly
\* when its token is one that is set in the global, the instagram or the
\* messenger scope, whichever scope that is; the set has one member for
\* each distinct configured value.
C25_VerifyTokenUnion ==
    (server = "config" /\ getOut # NoResponse)
    => /\ getIn.mode = "subscribe" =>
             (getOut.status = 200
              <=> /\ Truthy(getIn.token)
                  /\ \/ getIn.token = cfg.verifyToken
                     \/ getIn.token = cfg.igVerify
                     \/ getIn.token = cfg.msVerify)
       /\ \A t \in GetTokens :
             t \in getVerifyTokens(cfg)
             <=> Truthy(t) /\ t \in {cfg.verifyToken, cfg.igVerify, cfg.msVerify}

C25_Witness ==
    /\ server = "config"
    /\ getOut.status = 200
    /\ getIn.token = cfg.msVerify
    /\ getIn.token \notin {cfg.verifyToken, cfg.igVerify}
    /\ Truthy(cfg.igVerify)

\* C26: in the servers that check signatures, the check runs for every POST
\* of a supported platform, over the bytes as received: a header that is the
\* signature of those bytes under a configured secret is found valid,
\* although the re-serialized body differs from them.
C26_RawBodyVerified ==
    \A r \in Reqs :
        (/\ server \notin Answering /\ reqs[r].st # "idle"
         /\ detectWebhookPlatform(reqs[r].object) # Absent)
        => /\ Reserialize(PostBody) # PostBody
           /\ reqs[r].verified # "skipped"
           /\ Signed(r) => reqs[r].verified = "true"

\* C27: the signature check returns a boolean and throws nothing, for
\* every body, candidate list and header value.
C27_NeverThrows ==
    sigOut # SigNone =>
        /\ sigOut.config \in {"true", "false"}
        /\ sigOut.env \in {"true", "false"}

(***************************************************************************)
(* Cost of the comparisons, in characters looked at.                       *)
(***************************************************************************)
\* The first position at which a and b (of equal length) differ, their
\* length when they are equal.
FirstDiff(a, b) ==
    IF a = b THEN Len(a)
    ELSE CHOOSE k \in 1..Len(a) : a[k] # b[k] /\ \A j \in 1..(k - 1) : a[j] = b[j]

\* crypto.timingSafeEqual(a, b): every byte is looked at.
timingSafeEqualSteps(a, b) == Len(a)

\* signatureHash !== expectedHash: a string comparison stops at the first
\* character that differs.
notEqualSteps(a, b) == FirstDiff(a, b)

\* Plain ASCII headers of the length of a signed header.
FullHeaders == {h \in SigHeaders : Len(h) = Len(Prefix) + DigestLen /\ Utf8Len(h) = Len(h)
                                   /\ SubSeq(h, 1, Len(Prefix)) = Prefix}

\* C28: in both signature checks, the cost of comparing the computed
\* signature with a header of the same length is the same for every such
\* header, wherever the first differing character is.
C28_ConstantTime ==
    (sigOut # SigNone /\ sigIn.secrets # <<>> /\ sigIn.body # Absent
     /\ sigIn.header \in FullHeaders)
    => LET secret == sigIn.secrets[1]
           expected == Sign(sigIn.body, secret)
           digest(h) == SplitSecond(h, Prefix)
       IN \A h \in FullHeaders :
             /\ timingSafeEqualSteps(h, expected)
                  = timingSafeEqualSteps(sigIn.header, expected)
             /\ notEqualSteps(digest(h), Hmac(secret, sigIn.body))
                  = notEqualSteps(digest(sigIn.header), Hmac(secret, sigIn.body))

(***************************************************************************)
(* SpecClassify: what each server does with one entry item, for every      *)
(* shape of messaging item and of changes item.                            *)
(***************************************************************************)
Tags == {"message", "postback", "read", "delivery"}

\* Timestamps of an item: a number ("n:" and its digits), a string of digits
\* ("s:" and its digits) or none.
Timestamps == {"n:7", "n:0", "s:7", Absent}

AllMessaging ==
    [sender : {"U1", Absent}, recipient : {"P1", "P2", Absent},
     tags : SUBSET Tags, text : {"hi", Absent}, timestamp : Timestamps]

AllChanges ==
    [field : {"comments", "messages", "feed"}, nil : BOOLEAN,
     from : {"U2", Absent}, media : {"M1", Absent}, text : {"nice", Absent},
     sender : {"U1", Absent}, recipient : {"P1", Absent}, hasMessage : BOOLEAN,
     timestamp : Timestamps]

\* Number(x): a number is itself, a string of digits is its number, undefined
\* is NaN.
Number(x) ==
    CASE x = "s:7" -> "n:7"
      [] x = Absent -> "NaN"
      [] OTHER -> x

\* Number(value.timestamp) || Date.now(): NaN and 0 are falsy.
normalizedTimestamp(ts) ==
    IF Number(ts) \in {"NaN", "n:0"} THEN "now" ELSE Number(ts)

\* The timestamp of the forwarded event: the config and env servers copy
\* event.timestamp of a messaging item, the config server normalizes the one
\* of a 'messages' change and stamps a comment with the current time.
forwardedTimestamp(srv, ph, it) ==
    CASE srv \in {"config", "env"} /\ ph = "messaging" -> it.timestamp
      [] srv = "config" /\ ph = "changes" /\ it.field = "messages" ->
             normalizedTimestamp(it.timestamp)
      [] srv = "config" /\ ph = "changes" /\ it.field = "comments" -> "now"
      [] OTHER -> "-"

Stamped(a, ts) ==
    [act |-> a.act, op |-> a.op, kind |-> a.kind, sender |-> a.sender,
     text |-> a.text, timestamp |-> IF a.act = "call" THEN ts ELSE "-"]

NotClassified == Stamped(Act("none", "-", "-", "-", "-"), "-")

\* What the running server does with one item of one list (the answering
\* servers read the messaging list only).
Outcome(srv, c, platform, ph, it) ==
    Stamped(IF srv \in Answering /\ ph = "changes" THEN Skip
            ELSE Dispatch(srv, c, platform, ph, it),
            forwardedTimestamp(srv, ph, it))

InitClassify ==
    /\ server \in Servers
    /\ cfg \in ConfigsOf(server)
    /\ reqs = <<>>
    /\ log = <<>>
    /\ hist = <<>>
    /\ sigIn = Absent
    /\ sigOut = Absent
    /\ getIn = Absent
    /\ getOut = Absent
    /\ itemIn \in [platform : {"instagram", "messenger"}, ph : {"messaging"},
                   item : AllMessaging]
                  \cup [platform : {"instagram", "messenger"}, ph : {"changes"},
                        item : AllChanges]
    /\ itemOut = NotClassified
    /\ cb = Absent /\ api = Absent /\ env = Absent

\* The loop body of the running server applied to the item.
Classify ==
    /\ itemOut = NotClassified
    /\ itemOut' = Outcome(server, cfg, itemIn.platform, itemIn.ph, itemIn.item)
    /\ UNCHANGED <<server, cfg, reqs, log, hist, sigIn, sigOut, getIn, getOut, itemIn, cb, api, env>>

NextClassify == Classify

SpecClassify == InitClassify /\ [][NextClassify]_vars

\* The first populated tag in the order message, postback, read, delivery.
FirstTag(tags) ==
    IF "message" \in tags THEN "message"
    ELSE IF "postback" \in tags THEN "postback"
    ELSE IF "read" \in tags THEN "read" ELSE "delivery"

\* A messaging item with sender and recipient and some tag was classified.
TaggedItem ==
    /\ itemOut # NotClassified /\ itemIn.ph = "messaging"
    /\ itemIn.item.sender # Absent /\ itemIn.item.recipient # Absent
    /\ itemIn.item.tags # {}

\* C29: in the forwarding servers every messaging item with a populated
\* tag yields one event, of the type of its first populated tag in the
\* order message, postback, read, delivery.
C29_FirstTagForwarded ==
    (TaggedItem /\ server \notin Answering)
    => itemOut.act = "call" /\ itemOut.kind = FirstTag(itemIn.item.tags)

\* An Instagram 'messages' change was classified by the config server.
MessagesChange ==
    /\ itemOut # NotClassified /\ server = "config"
    /\ itemIn.platform = "instagram" /\ itemIn.ph = "changes"
    /\ itemIn.item.field = "messages"

\* The change carries a value with sender, recipient and message.
EmbeddedComplete ==
    /\ ~itemIn.item.nil /\ itemIn.item.hasMessage
    /\ itemIn.item.sender # Absent /\ itemIn.item.recipient # Absent

\* The messaging item with the sender, recipient, timestamp and message of
\* the change.
EmbeddedMessage ==
    [sender |-> itemIn.item.sender, recipient |-> itemIn.item.recipient,
     tags |-> {"message"}, text |-> itemIn.item.text,
     timestamp |-> itemIn.item.timestamp]

AsMessagingItem == Outcome(server, cfg, "instagram", "messaging", EmbeddedMessage)

\* The statement as written: every complete 'messages' change is forwarded as
\* the messaging item with the same sender, recipient, timestamp and message,
\* and an incomplete one forwards nothing and does not fail.
C30_Original ==
    MessagesChange
    => IF EmbeddedComplete THEN itemOut.act = "call" /\ itemOut = AsMessagingItem
       ELSE itemOut.act = "skip"

\* C30: a complete Instagram 'messages' change is forwarded as the messaging
\* item with the same sender, recipient and message, with the timestamp
\* Number(timestamp) or, where that is NaN or 0, the current time (so the two
\* events are equal when the timestamp is a non-zero number); an incomplete
\* one forwards nothing and does not fail.
C30_MessagesChange ==
    MessagesChange
    => IF EmbeddedComplete
       THEN /\ itemOut.act = "call"
            /\ itemOut = Stamped(AsMessagingItem,
                                  normalizedTimestamp(itemIn.item.timestamp))
            /\ itemIn.item.timestamp = "n:7" => itemOut = AsMessagingItem
       ELSE itemOut.act = "skip"

C30_Witness ==
    /\ MessagesChange /\ EmbeddedComplete
    /\ itemIn.item.timestamp = "n:7" /\ itemIn.item.text = Absent
    /\ itemOut.act = "call" /\ itemOut.kind = "message"
    /\ itemOut.sender = "U1" /\ itemOut.text = "" /\ itemOut.timestamp = "n:7"

\* ---------------------------------------------------------------------
\* The same item normalized twice, at two readings of the clock.

\* Readings of Date.now(), in increasing order.
Clock == <<"n:100", "n:101">>

AllItems ==
    [platform : {"instagram", "messenger"}, ph : {"messaging"}, item : AllMessaging]
    \cup [platform : {"instagram", "messenger"}, ph : {"changes"}, item : AllChanges]

\* Date.now() read at clock position at.
DateNow(o, at) ==
    IF o.timestamp = "now" THEN [o EXCEPT !.timestamp = Clock[at]] ELSE o

\* metadata.receivedAt of a payload of the config server:
\* new Date().toISOString().
receivedAt(srv, o, at) ==
    IF srv = "config" /\ o.act = "call" THEN Clock[at] ELSE "-"

InitNormalize ==
    /\ server \in Servers
    /\ cfg \in ConfigsOf(server)
    /\ reqs = <<>>
    /\ log = <<>>
    /\ hist = <<>>
    /\ sigIn = Absent
    /\ sigOut = Absent
    /\ getIn = Absent
    /\ getOut = Absent
    /\ itemIn \in AllItems
    /\ itemOut = <<>>
    /\ cb = Absent /\ api = Absent /\ env = Absent

\* One more pass of the loop body over the item, no earlier than the last.
Normalize ==
    /\ Len(itemOut) < 2
    /\ \E at \in 1..Len(Clock) :
        /\ itemOut # <<>> => at >= itemOut[Len(itemOut)].at
        /\ itemOut' = Append(itemOut,
               [at |-> at,
                event |-> DateNow(Outcome(server, cfg, itemIn.platform,
                                          itemIn.ph, itemIn.item), at),
                receivedAt |-> receivedAt(server,
                                   Outcome(server, cfg, itemIn.platform,
                                           itemIn.ph, itemIn.item), at)])
    /\ UNCHANGED <<server, cfg, reqs, log, hist, sigIn, sigOut, getIn, getOut, itemIn, cb, api, env>>

NextNormalize == Normalize

SpecNormalize == InitNormalize /\ [][NextNormalize]_vars

\* C31: the two events the config server builds for the same item are equal
\* on every field, whatever the clock reads at the two passes.
C31_Idempotent ==
    (server = "config" /\ Len(itemOut) = 2)
    => /\ itemOut[1].event = itemOut[2].event
       /\ itemOut[1].receivedAt = itemOut[2].receivedAt

(***************************************************************************)
(* Termination of a POST. Every downstream call that was made returns or   *)
(* fails in the end: the return of a pending call is weakly fair.          *)
(***************************************************************************)
\* One POST and the returns of its calls.
NextLive == Receive(1) \/ Return(1)

SpecLive == Init /\ [][NextLive]_vars /\ WF_vars(Return(1))

\* The scan of request r got to position p: no item before it threw.
Reached(r, p) ==
    \A t \in Positions(r) : Before(t, p) => Class(r, t).act # "throw"

\* The return, with an outcome of outs, of a call op made for position p.
Returned(r, p, ops, outs) ==
    \E k \in LogIdx :
        /\ log[k].r = r /\ log[k].ev = "ret" /\ PosOf(log[k]) = p
        /\ log[k].op \in ops /\ log[k].out \in outs

Recorded(r, p) ==
    \E k \in LogIdx :
        log[k].r = r /\ log[k].ev = "call" /\ log[k].op = "append" /\ PosOf(log[k]) = p

\* The terminal states of the per-event machine that the event at position
\* p of request r has reached (skipped and filtered are one state here; a
\* forwarded event is delivered when its forward call succeeded).
TerminalStates(r, p) ==
    {s \in {"skipped", "production_failed", "delivery_failed", "delivered"} :
        CASE s = "skipped" -> Class(r, p).act = "skip" /\ Reached(r, p)
          [] s = "production_failed" ->
                \/ Returned(r, p, {"produce"}, {"fail", "empty"})
                \/ Returned(r, p, {"forward"}, {"fail"})
          [] s = "delivery_failed" -> Returned(r, p, {"deliver"}, {"fail"})
          [] s = "delivered" ->
                \/ Returned(r, p, {"deliver", "forward"}, {"ok"})
                \/ Recorded(r, p)}

\* Every event of a finished, accepted request is in one terminal state.
OneTerminalState ==
    \A r \in Reqs :
        reqs[r].st = "done" /\ Accepted(r)
        => \A p \in Positions(r) : Cardinality(TerminalStates(r, p)) = 1

Terminates == \A r \in Reqs : (reqs[r].st = "run") ~> (reqs[r].st = "done")

\* C32: the processing of every POST terminates, and every event of every
\* entry ends in exactly one terminal state of the per-event machine.
C32_TerminatesInOneState == Terminates /\ []OneTerminalState

\* Request r was answered 200.
Acked(r) ==
    \E k \in LogIdx : log[k].r = r /\ log[k].ev = "resp" /\ log[k].status = 200

\* A downstream call of some request is pending.
SomePending == \E k \in Reqs : reqs[k].st = "run"

ConfiguredVerifyTokens ==
    {t \in {cfg.verifyToken, cfg.igVerify, cfg.msVerify} : Truthy(t)}

\* hub.verify_token is the empty string, or an access token that is not also
\* a configured verify token.
NotAVerifyToken ==
    \/ getIn.token = ""
    \/ /\ getIn.token \in {t \in {cfg.igToken, cfg.msToken} : Truthy(t)}
       /\ getIn.token \notin ConfiguredVerifyTokens

\* C34: a handshake whose hub.verify_token is the empty string or an access
\* token is refused (403, or the 400 of the env server), whatever the
\* configuration.
C34_OnlyVerifyTokens ==
    (getOut # NoResponse /\ NotAVerifyToken) => getOut.status \in {403, 400}

\* C35: every delivery call is addressed to the sender of the inbound item
\* whose text the producer answered.
C35_ReplyToSender ==
    \A k \in LogIdx :
        (/\ log[k].ev = "call" /\ log[k].op = "deliver"
         /\ Truthy(ItemAt(log[k].r, PosOf(log[k])).sender))
        => log[k].sender = ItemAt(log[k].r, PosOf(log[k])).sender

\* C36: every delivery call goes to the Graph host of the platform of its
\* request, with the access token of that platform.
C36_PlatformCredentials ==
    \A k \in LogIdx :
        (log[k].ev = "call" /\ log[k].op = "deliver")
        => LET platform == detectWebhookPlatform(reqs[log[k].r].object)
           IN IF platform = "instagram"
              THEN /\ graphHost(server, platform) = "graph.instagram.com"
                   /\ graphToken(server, platform) = "igToken"
              ELSE /\ graphHost(server, platform) = "graph.facebook.com"
                   /\ graphToken(server, platform) = "msToken"

(***************************************************************************)
(* POST /callbacks: handleOpenClawCallbacks(req, res). req.body is an       *)
(* object (express.json() of express 4 leaves {} when there is no body);   *)
(* recipient and message are objects or missing.                           *)
(***************************************************************************)
CallbackBodies ==
    [hasRecipient : BOOLEAN, recipientId : {Absent, "", "U1", "U2"},
     hasMessage : BOOLEAN, text : {Absent, "", "hello", "bye"}]

\* A handler that sends whatever text it is given, the empty one included.
invalidCallback_TextOptional(b) ==
    ~b.hasRecipient \/ ~Truthy(b.recipientId) \/ ~b.hasMessage

\* !recipient || !recipient.id || !message || !message.text
invalidCallback(b) ==
    ~b.hasRecipient \/ ~Truthy(b.recipientId) \/ ~b.hasMessage \/ ~Truthy(b.text)

\* The fetch to graph.instagram.com/v24.0/me/messages.
sendCall(b) == [recipient |-> b.recipientId, text |-> b.text]

InitCallback ==
    /\ server = "single"
    /\ cfg \in ConfigsOf(server)
    /\ reqs = <<>>
    /\ log = <<>>
    /\ hist = <<>>
    /\ sigIn = Absent
    /\ sigOut = Absent
    /\ getIn = Absent
    /\ getOut = Absent
    /\ itemIn = Absent
    /\ itemOut = Absent
    /\ api = Absent /\ env = Absent
    /\ cb \in [body : CallbackBodies, pc : {"received"}, calls : {<<>>},
               resp : {<<>>}]

\* The handler up to its await: the 400, or the fetch.
CallbackStart ==
    /\ cb.pc = "received"
    /\ cb' = IF invalidCallback(cb.body)
             THEN [cb EXCEPT !.pc = "done",
                             !.resp = Append(@, Response(400, "Invalid callback payload"))]
             ELSE [cb EXCEPT !.pc = "await",
                             !.calls = Append(@, sendCall(cb.body))]
    /\ UNCHANGED <<server, cfg, reqs, log, hist, sigIn, sigOut, getIn, getOut,
                   itemIn, itemOut, api, env>>

\* The fetch resolves with a 2xx status ("ok") or another one ("status"), or
\* rejects ("error"); the throw of !response.ok and the rejection both end
\* in the catch.
CallbackReturn ==
    /\ cb.pc = "await"
    /\ \E out \in {"ok", "status", "error"} :
          cb' = [cb EXCEPT !.pc = "done",
                           !.resp = Append(@, IF out = "ok"
                                              THEN Response(200, "status: ok")
                                              ELSE Response(500, "Internal server error")),
                           !.calls = [k \in DOMAIN @ |-> Merge(@[k], [out |-> out])]]
    /\ UNCHANGED <<server, cfg, reqs, log, hist, sigIn, sigOut, getIn, getOut,
                   itemIn, itemOut, api, env>>

NextCallback == CallbackStart \/ CallbackReturn

SpecCallback == InitCallback /\ [][NextCallback]_vars

\* C37: a finished callback request has exactly one response: 400 and no
\* send call when recipient, recipient.id, message or message.text is
\* missing or empty; otherwise one send call with that recipient id and
\* text, answered 200 {status: 'ok'} iff the call succeeded and 500 if not.
\* While the call is pending nothing has been written.
C37_CallbackResponse ==
    LET b == cb.body
        bad == \/ ~b.hasRecipient \/ b.recipientId \in {Absent, ""}
               \/ ~b.hasMessage \/ b.text \in {Absent, ""}
    IN /\ Len(cb.resp) <= 1 /\ Len(cb.calls) <= 1
       /\ cb.pc = "await" => cb.resp = <<>>
       /\ cb.pc = "done" =>
            /\ Len(cb.resp) = 1
            /\ IF bad
               THEN cb.calls = <<>> /\ cb.resp[1].status = 400
               ELSE /\ Len(cb.calls) = 1
                    /\ cb.calls[1].recipient = b.recipientId
                    /\ cb.calls[1].text = b.text
                    /\ cb.calls[1].out = "ok" <=> cb.resp[1] = Response(200, "status: ok")
                    /\ cb.calls[1].out # "ok" <=> cb.resp[1].status = 500

C37_Witness ==
    /\ cb.pc = "done" /\ cb.body.recipientId = "U1" /\ cb.body.text = "hello"
    /\ cb.calls = <<[recipient |-> "U1", text |-> "hello", out |-> "status"]>>
    /\ cb.resp = <<Response(500, "Internal server error")>>

(***************************************************************************)
(* The history store by itself: one file per sender id under history/.     *)
(* A sender id is the list of the segments that '/' splits it into, since  *)
(* path.join and path.resolve normalize the path they build.               *)
(***************************************************************************)
MaxAppends == 3

HistorySenders == {<<"U1">>, <<"U2">>, <<"unknown">>, <<"x", "..", "U1">>}

\* path.normalize on the segments: "." is dropped, ".." removes the segment
\* before it (no id here climbs out of history/).
RECURSIVE normalizePath(_, _)
normalizePath(done, rest) ==
    IF rest = <<>> THEN done
    ELSE IF Head(rest) = "." THEN normalizePath(done, Tail(rest))
    ELSE IF Head(rest) = ".." /\ done # <<>>
    THEN normalizePath(SubSeq(done, 1, Len(done) - 1), Tail(rest))
    ELSE normalizePath(Append(done, Head(rest)), Tail(rest))

\* path.join(historyDir, `${senderId}.txt`), relative to history/.
senderFilePath(senderId) == normalizePath(<<>>, senderId)

HistoryFiles == {senderFilePath(s) : s \in HistorySenders}

\* `Sender: ${userMessage}\nMe: ${responseMessage}\n\n`
HistoryEntry(userMessage, responseMessage) ==
    <<"Sender: ", userMessage, "\nMe: ", responseMessage, "\n\n">>

\* loadConversationHistory(senderId) on the store h: the content of the
\* file, "" when there is none.
loadConversationHistory(h, senderId) == h[senderFilePath(senderId)]

\* saveConversationHistory(senderId, userMessage, responseMessage) on the
\* store h; a failed mkdir or appendFile is caught and changes nothing.
saveConversationHistory(h, senderId, userMessage, responseMessage, out) ==
    IF out = "ok"
    THEN [h EXCEPT ![senderFilePath(senderId)] =
             @ \o HistoryEntry(userMessage, responseMessage)]
    ELSE h

InitHistory ==
    /\ server \in Answering \ {"stateless"}
    /\ cfg \in ConfigsOf(server)
    /\ reqs = <<>>
    /\ log = <<>>
    /\ hist = [f \in HistoryFiles |-> <<>>]
    /\ sigIn = Absent
    /\ sigOut = Absent
    /\ getIn = Absent
    /\ getOut = Absent
    /\ itemIn = Absent
    /\ itemOut = Absent
    /\ cb = Absent /\ api = Absent /\ env = Absent

\* One delivered Instagram reply is saved.
Save ==
    /\ Len(log) < MaxAppends
    /\ \E s \in HistorySenders, u \in {"hi", ""}, out \in {"ok", "fail"} :
          /\ hist' = saveConversationHistory(hist, s, u, Reply, out)
          /\ log' = Append(log, [op |-> "append", sender |-> s, text |-> u, out |-> out])
    /\ UNCHANGED <<server, cfg, reqs, sigIn, sigOut, getIn, getOut, itemIn, itemOut,
                   cb, api, env>>

NextHistory == Save

SpecHistory == InitHistory /\ [][NextHistory]_vars

IsPrefix(a, b) == Len(a) <= Len(b) /\ SubSeq(b, 1, Len(a)) = a

\* The step is an append for sender s.
AppendFor(s) == Len(log') = Len(log) + 1 /\ log'[Len(log')].sender = s

\* C38: in every step each sender's history grows at its end only, and an
\* append for sender s adds one entry to the history of s (none when the
\* write fails) and leaves the history of every other sender as it was.
C38_AppendOnlyPerSender ==
    [][\A s \in HistorySenders :
          /\ IsPrefix(loadConversationHistory(hist, s), loadConversationHistory(hist', s))
          /\ AppendFor(s) =>
               /\ loadConversationHistory(hist', s) \in
                     { loadConversationHistory(hist, s),
                       loadConversationHistory(hist, s)
                          \o HistoryEntry(log'[Len(log')].text, Reply) }
               /\ \A t \in HistorySenders \ {s} :
                     loadConversationHistory(hist', t) = loadConversationHistory(hist, t)
      ]_vars

(***************************************************************************)
(* MetaAPIClient (src/metaApiClient.js). A call is the method, its         *)
(* arguments (Absent / AbsentStr for an argument not given), the HTTP      *)
(* requests made so far and the result.                                    *)
(***************************************************************************)
ClientMethods ==
    {"sendMessage", "sendTextMessage", "postComment", "likeObject", "unlikeObject",
     "getUserProfile", "sendTypingIndicator", "markSeen"}

ClientCalls ==
    [method : {"sendMessage"}, id : {"U1", "U2"}, text : {"hi", "yo"},
     messagingType : {Absent, "RESPONSE", "UPDATE"}, isTyping : {Absent},
     fields : {AbsentStr}]
    \cup [method : {"sendTextMessage", "postComment"}, id : {"U1", "U2"},
          text : {"hi", "yo"}, messagingType : {Absent}, isTyping : {Absent},
          fields : {AbsentStr}]
    \cup [method : {"likeObject", "unlikeObject", "markSeen"}, id : {"U1", "U2"},
          text : {Absent}, messagingType : {Absent}, isTyping : {Absent},
          fields : {AbsentStr}]
    \cup [method : {"sendTypingIndicator"}, id : {"U1", "U2"}, text : {Absent},
          messagingType : {Absent}, isTyping : {Absent, "true", "false"},
          fields : {AbsentStr}]
    \cup [method : {"getUserProfile"}, id : {"U1", "U2"}, text : {Absent},
          messagingType : {Absent}, isTyping : {Absent},
          fields : {AbsentStr, <<"name">>, <<"name", "id">>}]

\* A parameter default: used when the argument is undefined.
Default(x, d) == IF x = Absent THEN d ELSE x

\* The same for an array parameter.
DefaultFields(x, d) == IF x = AbsentStr THEN d ELSE x

\* fields.join(',')
RECURSIVE Join(_)
Join(s) ==
    IF s = <<>> THEN <<>>
    ELSE IF Len(s) = 1 THEN s
    ELSE <<Head(s), ",">> \o Join(Tail(s))

HttpRequest(verb, path, payload, params) ==
    [verb |-> verb, path |-> path, payload |-> payload, params |-> params]

\* The request of sendMessage(recipientId, message, messagingType).
sendMessage(recipientId, message, messagingType) ==
    HttpRequest("POST", <<"me", "messages">>,
                <<"recipient", recipientId, "message", message,
                  "messaging_type", Default(messagingType, "RESPONSE")>>,
                <<"access_token">>)

\* sendTextMessage(recipientId, text): this.sendMessage(recipientId, {text}).
sendTextMessage(recipientId, text) == sendMessage(recipientId, <<"text", text>>, Absent)

postComment(objectId, message) ==
    HttpRequest("POST", <<objectId, "comments">>, <<>>, <<"access_token", "message", message>>)

likeObject(objectId) ==
    HttpRequest("POST", <<objectId, "likes">>, <<>>, <<"access_token">>)

unlikeObject(objectId) ==
    HttpRequest("DELETE", <<objectId, "likes">>, <<>>, <<"access_token">>)

getUserProfile(userId, fields) ==
    HttpRequest("GET", <<userId>>, <<>>,
                <<"access_token", "fields">> \o Join(DefaultFields(fields, <<"name", "profile_pic">>)))

sendTypingIndicator(recipientId, isTyping) ==
    HttpRequest("POST", <<"me", "messages">>,
                <<"recipient", recipientId, "sender_action",
                  IF Default(isTyping, "true") = "true" THEN "typing_on" ELSE "typing_off">>,
                <<"access_token">>)

markSeen(recipientId) ==
    HttpRequest("POST", <<"me", "messages">>,
                <<"recipient", recipientId, "sender_action", "mark_seen">>,
                <<"access_token">>)

\* The request the called method makes.
requestOf(c) ==
    CASE c.method = "sendMessage" -> sendMessage(c.id, <<"text", c.text>>, c.messagingType)
      [] c.method = "sendTextMessage" -> sendTextMessage(c.id, c.text)
      [] c.method = "postComment" -> postComment(c.id, c.text)
      [] c.method = "likeObject" -> likeObject(c.id)
      [] c.method = "unlikeObject" -> unlikeObject(c.id)
      [] c.method = "getUserProfile" -> getUserProfile(c.id, c.fields)
      [] c.method = "sendTypingIndicator" -> sendTypingIndicator(c.id, c.isTyping)
      [] c.method = "markSeen" -> markSeen(c.id)

\* A catch block that logs the error and returns nothing.
catchError_Swallow(error) == [kind |-> "return", value |-> Absent]

\* catch (error) { console.error(...); throw error; }
catchError(error) == [kind |-> "throw", value |-> error]

NoResult == [kind |-> "pending", value |-> Absent]

InitClient ==
    /\ server = "env"
    /\ cfg \in ConfigsOf(server)
    /\ reqs = <<>>
    /\ log = <<>>
    /\ hist = <<>>
    /\ sigIn = Absent
    /\ sigOut = Absent
    /\ getIn = Absent
    /\ getOut = Absent
    /\ itemIn = Absent
    /\ itemOut = Absent
    /\ cb = Absent /\ env = Absent
    /\ api \in [call : ClientCalls, pc : {"called"}, requests : {<<>>},
                result : {NoResult}]

\* The method runs to its await of axios.
ClientRequest ==
    /\ api.pc = "called"
    /\ api' = [api EXCEPT !.pc = "await", !.requests = Append(@, requestOf(api.call))]
    /\ UNCHANGED <<server, cfg, reqs, log, hist, sigIn, sigOut, getIn, getOut,
                   itemIn, itemOut, cb, env>>

\* axios resolves with a response or rejects with an error.
ClientReturn ==
    /\ api.pc = "await"
    /\ \E out \in {[ok |-> TRUE, value |-> "data1"], [ok |-> TRUE, value |-> "data2"],
                   [ok |-> FALSE, value |-> "err1"], [ok |-> FALSE, value |-> "err2"]} :
          api' = [api EXCEPT !.pc = "done",
                             !.result = IF out.ok
                                        THEN [kind |-> "return", value |-> out.value]
                                        ELSE catchError(out.value)]
    /\ UNCHANGED <<server, cfg, reqs, log, hist, sigIn, sigOut, getIn, getOut,
                   itemIn, itemOut, cb, env>>

NextClient == ClientRequest \/ ClientReturn

SpecClient == InitClient /\ [][NextClient]_vars

\* C39: a finished client call made exactly one HTTP request, and either
\* returned the response data or threw the error of the request (never
\* nothing); the request of sendTextMessage(r, t) is the request of
\* sendMessage(r, {text: t}, 'RESPONSE').
C39_OneRequestRethrow ==
    /\ Len(api.requests) <= 1
    /\ api.pc = "done" =>
         /\ Len(api.requests) = 1
         /\ \/ api.result.kind = "return" /\ api.result.value \in {"data1", "data2"}
            \/ api.result.kind = "throw" /\ api.result.value \in {"err1", "err2"}
    /\ (api.pc # "called" /\ api.call.method = "sendTextMessage") =>
         api.requests[1] = sendMessage(api.call.id, <<"text", api.call.text>>, "RESPONSE")

C39_Witness ==
    /\ api.pc = "done" /\ api.call.method = "sendTextMessage"
    /\ api.call.id = "U1" /\ api.call.text = "hi"
    /\ Len(api.requests) = 1 /\ api.requests[1].path = <<"me", "messages">>
    /\ api.result = [kind |-> "throw", value |-> "err1"]

(***************************************************************************)
(* Start of the config server: config.json is read, applyEnvOverrides      *)
(* runs once, then requests are served. An environment variable is kept    *)
(* under the name of the configuration field it overrides (META_APP_SECRET *)
(* under appSecret, META_INSTAGRAM_VERIFY_TOKEN under igVerify, ...).       *)
(***************************************************************************)
Credentials ==
    {"appSecret", "verifyToken", "igSecret", "igVerify", "igToken",
     "msSecret", "msVerify", "msToken"}

\* The value config.json gives a credential where it has one, and the value
\* its environment variable has where that is set to something.
FileValue ==
    [appSecret |-> "fs0", verifyToken |-> "t1", igSecret |-> "fs1", igVerify |-> "t2",
     igToken |-> "fa1", msSecret |-> "fs2", msVerify |-> "ft3", msToken |-> "fa2"]

EnvValue ==
    [appSecret |-> "es0", verifyToken |-> "et0", igSecret |-> "es1", igVerify |-> "et1",
     igToken |-> "ea1", msSecret |-> "es2", msVerify |-> "et2", msToken |-> "ea2"]

\* config.json files: the credentials in have their value, the others are
\* missing; server.port and openclaw.hookUrl are the other settings.
FileConfig(in) ==
    Merge([c \in Credentials |-> IF c \in in THEN FileValue[c] ELSE Absent],
          [port |-> "8080", hookUrl |-> "hook"])

FileConfigs ==
    {FileConfig(in) : in \in {{"appSecret", "igVerify", "igToken", "msSecret"},
                              {"verifyToken", "igSecret", "msVerify", "msToken"}}}

\* process.env: each variable unset, set to "", or set to its value.
Environments ==
    {[c \in Credentials |-> IF st[c] = "set" THEN EnvValue[c]
                            ELSE IF st[c] = "empty" THEN "" ELSE Absent] :
        st \in [Credentials -> {"unset", "empty", "set"}]}

\* a ?? b: only an unset variable falls back to config.json.
OrElse_Nullish(a, b) == IF a # Absent THEN a ELSE b

\* a || b
OrElse(a, b) == IF Truthy(a) THEN a ELSE b

\* applyEnvOverrides() on configuration c with the environment e.
applyEnvOverrides(c, e) ==
    [f \in DOMAIN c |-> IF f \in Credentials THEN OrElse(e[f], c[f]) ELSE c[f]]

InitEnv ==
    /\ server = "config"
    /\ cfg \in FileConfigs
    /\ env \in [vars : Environments, file : {cfg}, loaded : {FALSE}]
    /\ reqs = <<>>
    /\ log = <<>>
    /\ hist = <<>>
    /\ sigIn = Absent
    /\ sigOut = Absent
    /\ getIn = [mode |-> Absent, token |-> Absent, challenge |-> Absent]
    /\ getOut = NoResponse
    /\ itemIn = Absent
    /\ itemOut = Absent
    /\ cb = Absent /\ api = Absent

\* const config = JSON.parse(...); applyEnvOverrides();
LoadConfig ==
    /\ ~env.loaded
    /\ cfg' = applyEnvOverrides(cfg, env.vars)
    /\ env' = [env EXCEPT !.loaded = TRUE]
    /\ UNCHANGED <<server, reqs, log, hist, sigIn, sigOut, getIn, getOut,
                   itemIn, itemOut, cb, api>>

\* A handshake request served after the start.
Handshake ==
    /\ env.loaded
    /\ getOut = NoResponse
    /\ \E token \in {"t1", "et0"} :
          /\ getIn' = [mode |-> "subscribe", token |-> token, challenge |-> "xyz"]
          /\ getOut' = handleWebhookVerification(getVerifyTokens(cfg), "subscribe",
                                                 token, "xyz")
    /\ UNCHANGED <<server, cfg, reqs, log, hist, sigIn, sigOut, itemIn, itemOut,
                   cb, api, env>>

NextEnv == LoadConfig \/ Handshake

SpecEnv == InitEnv /\ [][NextEnv]_vars

\* After the start every credential is its environment variable where that
\* is set and non-empty and its config.json value otherwise, and every
\* other setting is as in config.json.
OverridesApplied ==
    env.loaded =>
        \A f \in DOMAIN cfg :
            cfg[f] = IF f \in Credentials /\ env.vars[f] \notin {Absent, ""}
                     THEN env.vars[f] ELSE env.file[f]

====
